---- MODULE Spec2Model ----
(***************************************************************************)
(* useThrottleCallback (src/src/hooks/useThrottleCallback/index.ts).       *)
(*                                                                         *)
(* The state is the four refs of one mounted hook instance, the platform's *)
(* timer queue and clock, and two history sequences (calls, execs) that    *)
(* record every call of the throttled function and every invocation of    *)
(* the user's callback.  Time is an integer number of milliseconds.  A     *)
(* timer never runs before it is due but may run late: the clock may      *)
(* advance, and further calls may be made, while a due timer is waiting.   *)
(***************************************************************************)
EXTENDS Integers, Sequences, FiniteSets, TLC

\* ---------------------------------------------------------------- bounds
MaxDelay == 2        \* delay ranges over 0..MaxDelay
MaxTicks == 2        \* the clock advances at most this far past MaxDelay
MaxCalls == 4        \* calls of the throttled function per behaviour

MaxNow == MaxDelay + MaxTicks
Values == {"A", "B"}             \* payloads passed to the throttled function
Callbacks == {"f", "g"}          \* callbacks the component may supply
FirstCallback == "f"             \* the one passed at the first render

\* Date.now() is milliseconds since the epoch: in a running application it
\* reads more than any delay when the component mounts.  Later readings
\* come from Tick.
ClockStart == MaxDelay
\* A mocked clock (fake timers started at the epoch) reads 0 at mount.
MockClockStart == 0

VARIABLES
  now,           \* Date.now() and the timer clock
  delay,         \* the hook's delay parameter
  callback,      \* the callback passed at the latest render
  callbackRef,   \* callbackRef.current
  lastExecTime,  \* lastExecTime.current
  timeoutRef,    \* timeoutRef.current: a timer id, or Null
  trailingArgs,  \* trailingArgs.current: an argument list, or NoArgs
  timers,        \* timers set with setTimeout and neither run nor cleared
  nextTimerId,   \* id the next setTimeout returns
  mounted,       \* the owning component is mounted
  mayThrow,      \* the callbacks supplied may throw
  calls,         \* history: calls of the throttled function
  execs          \* history: invocations of the callback

throttleVars == <<now, delay, callback, callbackRef, lastExecTime, timeoutRef,
                  trailingArgs, timers, nextTimerId, mounted, mayThrow, calls,
                  execs>>

\* useFetch (src/unnamed/part_004, src/unnamed/part_005)
VARIABLES
  fetchUrl,       \* the url argument of the latest render, or NoUrl
  data,           \* the data state: the request whose json it is, or NoRequest
  error,          \* the error state: the request that failed, or NoRequest
  loading,        \* the loading state
  controllerRef,  \* controllerRef.current: the request it belongs to, or NoRequest
  requests        \* every request started, in order, with its progress

fetchVars == <<fetchUrl, data, error, loading, controllerRef, requests>>

\* useLocalStorage (src/unnamed/part_003)
VARIABLES
  localStorage,   \* window.localStorage, shared by the tabs: key -> item
  hookKey,        \* the key argument of each hook instance
  hookTab,        \* the tab (window) each hook instance lives in
  subscribed,     \* the instance is mounted and its listeners are attached
  rendered,       \* value returned by the instance at its latest render
  notified,       \* the store's callback ran since the latest render
  lastSet,        \* history: per key, the value stored by the latest setValue
  composed,       \* history: per key, the updates so far applied in order
  updates         \* history: the number of setValue calls

storageVars == <<localStorage, hookKey, hookTab, subscribed, rendered, notified,
                 lastSet, composed, updates>>

\* useDebounce (src/src/hooks/useDebounce/index.ts)
VARIABLES
  debValue,        \* the value argument of the latest render
  debDelay,        \* the delay argument of the latest render
  debouncedValue,  \* the debouncedValue state
  debTimers,       \* timers set by the effect and neither run nor cleared
  debMounted,      \* the owning component is mounted
  inputs,          \* history: the value and time of every render that ran the effect
  shown            \* history: every setDebouncedValue

debounceVars == <<debValue, debDelay, debouncedValue, debTimers, debMounted,
                  inputs, shown>>

\* useCopyToClipboard (src/src/hooks/useOnClickOutside/index.test.ts:102-139)
VARIABLES
  copiedText,      \* the copiedText state, or NoText
  resetInterval,   \* the resetInterval argument
  resetTimers,     \* reset timers set by copy and not yet run
  copies           \* history: every copy call

clipboardVars == <<copiedText, resetInterval, resetTimers, copies>>

\* useScrollLock (src/unnamed/part_002)
VARIABLES
  bodyOverflow,    \* document.body.style.overflow
  originalStyle,   \* originalStyle.current
  scrollMounted,   \* the owning component is mounted
  beforeLock,      \* history: overflow before the first lock() not yet undone
  scrollOps        \* history: the lock() and unlock() calls

scrollVars == <<bodyOverflow, originalStyle, scrollMounted, beforeLock,
                scrollOps>>

\* useHover (src/src/hooks/useHover/index.ts, src/unnamed/part_010)
VARIABLES
  isHovering,      \* the isHovering state
  hoverRef,        \* ref.current: the element the ref is attached to
  hoverListeners,  \* listeners the two useEventListener effects have added
  hoverMounted,    \* the owning component is mounted
  hoverEvents      \* history: mouse events dispatched

hoverVars == <<isHovering, hoverRef, hoverListeners, hoverMounted, hoverEvents>>

\* useTimeout (src/unnamed/part_014)
VARIABLES
  toCallback,      \* the callback argument of the latest render
  toSaved,         \* savedCallback.current
  toDelay,         \* the delay argument of the latest render, or NullDelay
  toRef,           \* timeoutRef.current: a timer id, or Null
  toTimers,        \* timers set and neither run nor cleared
  toNextId,        \* id the next setTimeout returns
  toMounted,       \* the owning component is mounted
  toOps,           \* history: renders, reset(), clear() and the unmount
  toCalls          \* history: invocations of the callback

timeoutVars == <<toCallback, toSaved, toDelay, toRef, toTimers, toNextId,
                 toMounted, toOps, toCalls>>

\* useInterval (src/src/hooks/useInterval/index.ts)
VARIABLES
  ivCallback,      \* the callback argument of the latest render
  ivSaved,         \* savedCallback.current
  ivDelay,         \* the delay argument of the latest render, or NullDelay
  ivTimers,        \* intervals set with setInterval and not cleared
  ivNextId,        \* id the next setInterval returns
  ivMounted,       \* the owning component is mounted
  ivRenders,       \* history: the number of renders after the first
  ivCalls          \* history: invocations of the callback

intervalVars == <<ivCallback, ivSaved, ivDelay, ivTimers, ivNextId, ivMounted,
                  ivRenders, ivCalls>>

\* useEventListener (src/src/hooks/useEventListener/index.tsx)
VARIABLES
  lsName,          \* the eventName argument of the latest render
  lsElement,       \* the element argument of the latest render
  lsOptions,       \* the options argument of the latest render
  lsHandler,       \* the handler argument of the latest render
  lsSaved,         \* savedHandler.current
  domListeners,    \* listeners added to event targets and not removed
  lsMounted,       \* the owning component is mounted
  lsRenders,       \* history: renders after the first, with what changed
  lsBinds,         \* history: addEventListener calls
  lsCalls          \* history: events dispatched, with the handlers they invoked

listenerVars == <<lsName, lsElement, lsOptions, lsHandler, lsSaved,
                  domListeners, lsMounted, lsRenders, lsBinds, lsCalls>>

\* useDocumentTitle (src/src/hooks/useDocumentTitle/index.ts)
VARIABLES
  docTitle,        \* document.title
  titleArg,        \* the title argument of the latest render
  originalTitle,   \* originalTitle.current, or NoTitle for undefined
  titleMounted,    \* the owning component is mounted
  titleBefore,     \* history: document.title before the hook first mounted
  titleUpdates     \* history: the titles of the renders after the first

titleVars == <<docTitle, titleArg, originalTitle, titleMounted, titleBefore,
               titleUpdates>>

vars == <<throttleVars, fetchVars, storageVars, debounceVars, clipboardVars,
          scrollVars, hoverVars, timeoutVars, intervalVars, listenerVars,
          titleVars>>

\* What an action of one hook leaves alone: the state of the other hooks.
notThrottle ==
  <<fetchVars, storageVars, debounceVars, clipboardVars, scrollVars,
    hoverVars, timeoutVars, intervalVars, listenerVars, titleVars>>
notFetch ==
  <<throttleVars, storageVars, debounceVars, clipboardVars, scrollVars,
    hoverVars, timeoutVars, intervalVars, listenerVars, titleVars>>
notStorage ==
  <<throttleVars, fetchVars, debounceVars, clipboardVars, scrollVars,
    hoverVars, timeoutVars, intervalVars, listenerVars, titleVars>>
notDebounce ==
  <<throttleVars, fetchVars, storageVars, clipboardVars, scrollVars,
    hoverVars, timeoutVars, intervalVars, listenerVars, titleVars>>
notClipboard ==
  <<throttleVars, fetchVars, storageVars, debounceVars, scrollVars,
    hoverVars, timeoutVars, intervalVars, listenerVars, titleVars>>
notScroll ==
  <<throttleVars, fetchVars, storageVars, debounceVars, clipboardVars,
    hoverVars, timeoutVars, intervalVars, listenerVars, titleVars>>
notHover ==
  <<throttleVars, fetchVars, storageVars, debounceVars, clipboardVars,
    scrollVars, timeoutVars, intervalVars, listenerVars, titleVars>>
notTimeout ==
  <<throttleVars, fetchVars, storageVars, debounceVars, clipboardVars,
    scrollVars, hoverVars, intervalVars, listenerVars, titleVars>>
notInterval ==
  <<throttleVars, fetchVars, storageVars, debounceVars, clipboardVars,
    scrollVars, hoverVars, timeoutVars, listenerVars, titleVars>>
notListener ==
  <<throttleVars, fetchVars, storageVars, debounceVars, clipboardVars,
    scrollVars, hoverVars, timeoutVars, intervalVars, titleVars>>
notTitle ==
  <<throttleVars, fetchVars, storageVars, debounceVars, clipboardVars,
    scrollVars, hoverVars, timeoutVars, intervalVars, listenerVars>>

Null == 0                                  \* timer ids are positive
InitialLastExecTime == 0                   \* useRef(0)
NoArgs == [call |-> 0, val |-> "none"]     \* trailingArgs.current = null

\* ------------------------------------------------------- pieces of the code
\* const elapsed = now - lastExecTime.current
Elapsed(t) == t - lastExecTime

IsLeadingStrict(elapsed) == elapsed > delay
\* if (elapsed >= delay)
IsLeading(elapsed) == elapsed >= delay

RemainingFullDelay(elapsed) == delay
RemainingInverted(elapsed) == elapsed - delay
\* const remaining = delay - elapsed
Remaining(elapsed) == delay - elapsed

KeepFirstTrailingArgs(args) == IF trailingArgs # NoArgs THEN trailingArgs ELSE args
\* trailingArgs.current = args
StoredTrailingArgs(args) == args

TimerAlwaysNeeded == TRUE
\* if (!timeoutRef.current)
NeedsTimer == timeoutRef = Null

\* callbackRef.current(...args); lastExecTime.current = now
\* the assignment is skipped when the callback throws
LastExecAfterLeading(t, threw) == IF threw THEN lastExecTime ELSE t

\* callbackRef.current(...trailingArgs.current); trailingArgs.current = null
\* the assignment is skipped when the callback throws
TrailingArgsAfterFire(threw) == IF threw THEN trailingArgs ELSE NoArgs

\* Whether an invocation of the callback throws.
ThrowChoices == IF mayThrow THEN BOOLEAN ELSE {FALSE}

LastExecSetByTrailing(t) == t
\* the timer callback does not write lastExecTime
LastExecAfterTrailing(t) == lastExecTime

TrailingCallbackCaptured(tm) == tm.cb
\* callbackRef.current(...trailingArgs.current) inside the timer callback
TrailingCallback(tm) == callbackRef

\* One invocation of the callback, as recorded in execs.
Execution(args, edge, cb, sched, t, n, threw) ==
  [time |-> t, call |-> args.call, val |-> args.val, edge |-> edge,
   cb |-> cb, supplied |-> callback, schedCb |-> sched,
   ncalls |-> n, mounted |-> mounted, threw |-> threw]

\* ------------------------------------------------------------------ actions
LeadingBranchWithTrailing(args, t, threw) ==
  /\ timers' = {tm \in timers : tm.id # timeoutRef}
                 \cup {[id |-> nextTimerId, due |-> t + delay, cb |-> callbackRef]}
  /\ timeoutRef' = nextTimerId
  /\ nextTimerId' = nextTimerId + 1
  /\ trailingArgs' = args
  /\ execs' = Append(execs, Execution(args, "leading", callbackRef, callbackRef,
                                      t, Len(calls) + 1, threw))
  /\ lastExecTime' = LastExecAfterLeading(t, threw)

LeadingBranchKeepsTimer(args, t, threw) ==
  /\ execs' = Append(execs, Execution(args, "leading", callbackRef, callbackRef,
                                      t, Len(calls) + 1, threw))
  /\ lastExecTime' = LastExecAfterLeading(t, threw)
  /\ UNCHANGED <<timers, timeoutRef, trailingArgs, nextTimerId>>

\* The leading edge: clear a pending timer, call the callback, note the time.
LeadingBranch(args, t, threw) ==
  /\ timers' = {tm \in timers : tm.id # timeoutRef}
  /\ timeoutRef' = Null
  /\ execs' = Append(execs, Execution(args, "leading", callbackRef, callbackRef,
                                      t, Len(calls) + 1, threw))
  /\ lastExecTime' = LastExecAfterLeading(t, threw)
  /\ UNCHANGED <<trailingArgs, nextTimerId>>

\* Inside the window: keep the arguments, set a timer unless one is pending.
ThrottledBranch(args, t, elapsed) ==
  /\ trailingArgs' = StoredTrailingArgs(args)
  /\ IF NeedsTimer
       THEN /\ timers' = timers \cup {[id |-> nextTimerId,
                                       due |-> t + Remaining(elapsed),
                                       cb |-> callbackRef]}
            /\ timeoutRef' = nextTimerId
            /\ nextTimerId' = nextTimerId + 1
       ELSE UNCHANGED <<timers, timeoutRef, nextTimerId>>
  /\ UNCHANGED <<execs, lastExecTime>>

\* throttled(...args)
Throttled(v) ==
  /\ mounted
  /\ Len(calls) < MaxCalls
  /\ \E threw \in ThrowChoices :
       LET args == [call |-> Len(calls) + 1, val |-> v]
           elapsed == Elapsed(now)
       IN /\ IsLeading(elapsed) \/ ~threw
          /\ calls' = Append(calls, [time |-> now, val |-> v,
                                     path |-> IF IsLeading(elapsed) THEN "leading"
                                                                    ELSE "throttled",
                                     nexec |-> Len(execs),
                                     raised |-> threw])
          /\ IF IsLeading(elapsed)
               THEN LeadingBranch(args, now, threw)
               ELSE ThrottledBranch(args, now, elapsed)
  /\ UNCHANGED <<now, delay, callback, callbackRef, mounted, mayThrow>>
  /\ UNCHANGED notThrottle

\* The callback given to setTimeout runs.
TimerFire ==
  \E tm \in timers, threw \in ThrowChoices :
    /\ now >= tm.due
    /\ timers' = timers \ {tm}
    /\ timeoutRef' = Null
    /\ IF trailingArgs # NoArgs
         THEN /\ execs' = Append(execs, Execution(trailingArgs, "trailing",
                                                  TrailingCallback(tm), tm.cb,
                                                  now, Len(calls), threw))
              /\ trailingArgs' = TrailingArgsAfterFire(threw)
              /\ lastExecTime' = LastExecAfterTrailing(now)
         ELSE /\ ~threw
              /\ UNCHANGED <<execs, trailingArgs, lastExecTime>>
    /\ UNCHANGED <<now, delay, callback, callbackRef, nextTimerId, mounted,
                   mayThrow, calls>>
    /\ UNCHANGED notThrottle

\* The component renders again with a callback: callbackRef.current = callback.
Render(cb) ==
  /\ mounted
  /\ cb # callback
  /\ callback' = cb
  /\ callbackRef' = cb
  /\ UNCHANGED <<now, delay, lastExecTime, timeoutRef, trailingArgs, timers,
                 nextTimerId, mounted, mayThrow, calls, execs>>
  /\ UNCHANGED notThrottle

\* The component unmounts.  The hook registers no effect, hence no cleanup.
Unmount ==
  /\ mounted
  /\ mounted' = FALSE
  /\ UNCHANGED <<now, delay, callback, callbackRef, lastExecTime, timeoutRef,
                 trailingArgs, timers, nextTimerId, mayThrow, calls, execs>>
  /\ UNCHANGED notThrottle

\* One millisecond passes.
Tick ==
  /\ now < MaxNow
  /\ now' = now + 1
  /\ UNCHANGED <<delay, callback, callbackRef, lastExecTime, timeoutRef,
                 trailingArgs, timers, nextTimerId, mounted, mayThrow, calls,
                 execs>>
  /\ UNCHANGED notThrottle

\* No timer is due: every timer that was due has run.
NoTimerDue == \A tm \in timers : tm.due > now

\* throttled(...args) under punctual timers: a due timer runs first.
PunctualCall(v) == NoTimerDue /\ Throttled(v)

\* One millisecond passes under punctual timers: a due timer runs first.
PunctualTick == NoTimerDue /\ Tick

\* ------------------------------------------------- values of the other hooks
Urls == {"u1", "u2"}             \* urls a component may pass to useFetch
NoUrl == "null"                  \* url = null
NoRequest == 0                   \* null in data, error and controllerRef.current

Keys == {"k1", "k2"}             \* localStorage keys in use
Hooks == {1, 2, 3}               \* useLocalStorage instances
Tabs == {1, 2}                   \* browser tabs sharing the localStorage
NoItem == ""                     \* getItem finds nothing (getSnapshot: !item)
InitialValue == 0                \* the initialValue argument
NoValue == 0 - 1                 \* no setValue yet

NoText == "null"                 \* copiedText = null
Overflows == {"", "auto", "scroll", "hidden"}   \* values of body.style.overflow
NotLocked == "unlocked"          \* no lock() is waiting to be undone

EventTargets == {"window", "document", "el1", "el2"}   \* have addEventListener
RefObject == "ref"               \* a React ref object: { current }
NoElement == "undefined"         \* the element argument left out
NoNode == "null"                 \* ref.current = null
EventNames == {"mouseenter", "mouseleave"}
FirstEventName == "mouseenter"
ListenerOptions == {"none", "capture"}   \* the options argument, by identity
NullDelay == 0 - 1               \* delay = null
Titles == {"Home", "Inbox", "Sent"}      \* values of document.title
FirstTitle == "Home"
NoTitle == "undefined"           \* originalTitle.current = undefined

\* Each hook before it is used: the state its own specification leaves it in
\* while another hook is exercised.
ThrottleIdleAt(start) ==
  /\ now = start /\ mayThrow = FALSE /\ delay = 0
  /\ callback = FirstCallback /\ callbackRef = FirstCallback
  /\ lastExecTime = InitialLastExecTime /\ timeoutRef = Null
  /\ trailingArgs = NoArgs /\ timers = {} /\ nextTimerId = 1
  /\ mounted = FALSE /\ calls = <<>> /\ execs = <<>>

ThrottleIdle == ThrottleIdleAt(ClockStart)

FetchIdle ==
  /\ fetchUrl = NoUrl /\ data = NoRequest /\ error = NoRequest
  /\ loading = FALSE /\ controllerRef = NoRequest /\ requests = <<>>

StorageIdle ==
  /\ localStorage = [k \in Keys |-> NoItem]
  /\ hookKey = [h \in Hooks |-> "k1"] /\ hookTab = [h \in Hooks |-> 1]
  /\ subscribed = [h \in Hooks |-> FALSE]
  /\ rendered = [h \in Hooks |-> InitialValue]
  /\ notified = [h \in Hooks |-> FALSE]
  /\ lastSet = [k \in Keys |-> NoValue]
  /\ composed = [k \in Keys |-> InitialValue] /\ updates = 0

DebounceIdle ==
  /\ debValue = "A" /\ debDelay = 0 /\ debouncedValue = "A"
  /\ debTimers = {} /\ debMounted = FALSE /\ inputs = <<>> /\ shown = <<>>

ClipboardIdle ==
  /\ copiedText = NoText /\ resetInterval = 0 /\ resetTimers = {}
  /\ copies = <<>>

ScrollIdle ==
  /\ bodyOverflow = "" /\ originalStyle = "" /\ scrollMounted = FALSE
  /\ beforeLock = NotLocked /\ scrollOps = <<>>

HoverIdle ==
  /\ isHovering = FALSE /\ hoverRef = NoNode /\ hoverListeners = {}
  /\ hoverMounted = FALSE /\ hoverEvents = <<>>

TimeoutIdle ==
  /\ toCallback = FirstCallback /\ toSaved = FirstCallback
  /\ toDelay = NullDelay /\ toRef = Null /\ toTimers = {} /\ toNextId = 1
  /\ toMounted = FALSE /\ toOps = <<>> /\ toCalls = <<>>

IntervalIdle ==
  /\ ivCallback = FirstCallback /\ ivSaved = FirstCallback
  /\ ivDelay = NullDelay /\ ivTimers = {} /\ ivNextId = 1
  /\ ivMounted = FALSE /\ ivRenders = 0 /\ ivCalls = <<>>

ListenerIdle ==
  /\ lsName = FirstEventName /\ lsElement = NoElement /\ lsOptions = "none"
  /\ lsHandler = FirstCallback /\ lsSaved = FirstCallback
  /\ domListeners = {} /\ lsMounted = FALSE /\ lsRenders = <<>>
  /\ lsBinds = <<>> /\ lsCalls = <<>>

TitleIdle ==
  /\ docTitle = FirstTitle /\ titleArg = FirstTitle /\ originalTitle = NoTitle
  /\ titleMounted = FALSE /\ titleBefore = FirstTitle /\ titleUpdates = <<>>

\* Every hook but h is idle, the clock reading start.
OthersIdleAt(h, start) ==
  /\ h = "throttle" \/ ThrottleIdleAt(start)
  /\ h = "fetch" \/ FetchIdle
  /\ h = "storage" \/ StorageIdle
  /\ h = "debounce" \/ DebounceIdle
  /\ h = "clipboard" \/ ClipboardIdle
  /\ h = "scroll" \/ ScrollIdle
  /\ h = "hover" \/ HoverIdle
  /\ h = "timeout" \/ TimeoutIdle
  /\ h = "interval" \/ IntervalIdle
  /\ h = "listener" \/ ListenerIdle
  /\ h = "title" \/ TitleIdle

\* Every hook but h is idle.
OthersIdle(h) == OthersIdleAt(h, ClockStart)

\* The state after the first render, the clock reading start; throwing tells
\* whether the callbacks the component supplies may throw.
InitAt(start, throwing) ==
  /\ now = start
  /\ mayThrow = throwing
  /\ delay \in 0..MaxDelay
  /\ callback = FirstCallback
  /\ callbackRef = callback
  /\ lastExecTime = InitialLastExecTime
  /\ timeoutRef = Null
  /\ trailingArgs = NoArgs
  /\ timers = {}
  /\ nextTimerId = 1
  /\ mounted = TRUE
  /\ calls = <<>>
  /\ execs = <<>>
  /\ OthersIdle("throttle")

Init == InitAt(ClockStart, FALSE)
InitMockClock == InitAt(MockClockStart, FALSE)
InitThrowing == InitAt(ClockStart, TRUE)

Next ==
  \/ \E v \in Values : Throttled(v)
  \/ TimerFire
  \/ \E cb \in Callbacks : Render(cb)
  \/ Unmount
  \/ Tick

\* Timers run at the millisecond they are due, before any call made then
\* (fake timers advanced step by step).
NextPunctual ==
  \/ \E v \in Values : PunctualCall(v)
  \/ TimerFire
  \/ PunctualTick

Spec == Init /\ [][Next]_vars
SpecPunctual == Init /\ [][NextPunctual]_vars
SpecMockClock == InitMockClock /\ [][Next]_vars
SpecThrowing == InitThrowing /\ [][Next]_vars

\* ------------------------------------------------------------------- typing
TypeOK ==
  /\ now \in 0..MaxNow
  /\ delay \in 0..MaxDelay
  /\ callback \in Callbacks /\ callbackRef \in Callbacks
  /\ lastExecTime \in 0..MaxNow
  /\ timeoutRef \in 0..MaxCalls
  /\ nextTimerId \in 1..(MaxCalls + 1)
  /\ mounted \in BOOLEAN
  /\ mayThrow \in BOOLEAN
  /\ Len(calls) <= MaxCalls
  /\ Len(execs) <= MaxCalls

\* ------------------------------------------------------ reading the history
CallIdx == 1..Len(calls)
ExecIdx == 1..Len(execs)

\* The invocations that carry the arguments of call c.
ExecsOfCall(c) == {k \in ExecIdx : execs[k].call = c}

\* Call c invoked the callback inside the call, with its own arguments.
Synchronous(c) ==
  /\ calls[c].nexec + 1 \in ExecIdx
  /\ LET e == execs[calls[c].nexec + 1]
     IN /\ e.call = c
        /\ e.val = calls[c].val
        /\ e.edge = "leading"
        /\ e.time = calls[c].time

\* Calls i..j are one burst: i found the controller free (it took the leading
\* edge), the others came less than delay after it, and no later call did.
BurstAt(i, j) ==
  /\ i < j
  /\ calls[i].path = "leading"
  /\ \A c \in (i + 1)..j : calls[c].time < calls[i].time + delay
  /\ j = Len(calls) \/ calls[j + 1].time >= calls[i].time + delay

\* No timer is pending, and none was ever set or run.
NoTrailingEver ==
  /\ timeoutRef = Null
  /\ trailingArgs = NoArgs
  /\ timers = {}
  /\ nextTimerId = 1
  /\ \A k \in ExecIdx : execs[k].edge = "leading"

\* ------------------------------------------------------------------- claims

C2_FirstCallFires ==
  Len(calls) >= 1 => Synchronous(1) /\ Cardinality(ExecsOfCall(1)) = 1

\* Two bursts of two calls, delay apart, the first timer run before the
\* second burst and the second timer run too.
C3_TwoBursts ==
  /\ Len(calls) = 4
  /\ calls[1].time = calls[2].time
  /\ calls[3].time = calls[1].time + delay
  /\ calls[4].time = calls[3].time
  /\ calls[3].nexec = 2
  /\ timeoutRef = Null

\* C3: a call made right after a trailing invocation, and at least delay
\* after every leading invocation, invokes the callback inside the call;
\* and two bursts of two calls, delay apart, each followed by its timer,
\* invoke the callback with A, B, C, D in this order.
C3_LeadingAfterTrailing ==
  /\ \A c \in CallIdx :
       ( /\ calls[c].nexec >= 1
         /\ execs[calls[c].nexec].edge = "trailing"
         /\ \A k \in 1..calls[c].nexec :
              execs[k].edge = "leading" => calls[c].time >= execs[k].time + delay )
       => Synchronous(c)
  /\ C3_TwoBursts =>
       /\ Len(execs) = 4
       /\ \A k \in 1..4 : execs[k].call = k /\ execs[k].val = calls[k].val

C3_Witness ==
  /\ C3_TwoBursts
  /\ delay > 0
  /\ Len(execs) = 4
  /\ execs[2].edge = "trailing" /\ execs[3].edge = "leading"
  /\ execs[3].time = execs[2].time

\* C4: once the component has unmounted the callback is never invoked.
C4_NoFireAfterTeardown ==
  \A k \in ExecIdx : execs[k].mounted

\* C5: after a single call, however much time passes, the callback has been
\* invoked exactly once, inside the call, and no timer was ever set.
C5_SingleCallFiresOnce ==
  Len(calls) = 1 => Len(execs) = 1 /\ Synchronous(1) /\ NoTrailingEver

C5_Witness ==
  /\ Len(calls) = 1
  /\ delay > 0
  /\ now > calls[1].time + delay

\* Every call so far came at least delay after the one before.
C6_Spaced ==
  \A c \in CallIdx : c > 1 => calls[c].time >= calls[c - 1].time + delay

\* C6: when every call comes at least delay after the one before, every
\* call invokes the callback inside the call with its own arguments and no
\* timer is ever set.
C6_SpacedCallsAllLead ==
  C6_Spaced =>
    /\ \A c \in CallIdx : Synchronous(c)
    /\ Len(execs) = Len(calls)
    /\ NoTrailingEver

C6_Witness ==
  /\ C6_Spaced
  /\ delay > 0
  /\ Len(calls) >= 3
  /\ calls[2].time = calls[1].time + delay

\* C7: with delay 0 every call invokes the callback inside the call, and
\* timeoutRef and trailingArgs are empty in every state.
C7_ZeroWindow ==
  delay = 0 =>
    /\ timeoutRef = Null /\ trailingArgs = NoArgs /\ timers = {}
    /\ \A c \in CallIdx : calls[c].path = "leading" /\ Synchronous(c)
    /\ Len(execs) = Len(calls)

C7_Witness ==
  /\ delay = 0
  /\ Len(calls) >= 3
  /\ calls[1].time = calls[2].time
  /\ calls[3].time > calls[2].time

\* C8: every invocation, leading or trailing, calls the callback supplied at
\* the latest render, also when the timer was set under another callback.
C8_LatestCallback ==
  \A k \in ExecIdx : execs[k].cb = execs[k].supplied

C8_Witness ==
  \E k \in ExecIdx :
    /\ execs[k].edge = "trailing"
    /\ execs[k].schedCb # execs[k].supplied
    /\ execs[k].cb = execs[k].supplied

\* C9: any two invocations of the callback are at least delay apart.
C9_RateLimit ==
  \A k \in ExecIdx : k > 1 => execs[k].time - execs[k - 1].time >= delay

\* C10: a trailing invocation directly follows a leading one (so at most one
\* trailing invocation lies between two leading ones), and it carries the
\* arguments of the last call made before it ran.
C10_WindowBound ==
  \A k \in ExecIdx :
    execs[k].edge = "trailing" =>
      /\ k > 1 /\ execs[k - 1].edge = "leading"
      /\ execs[k].call = execs[k].ncalls
      /\ execs[k].val = calls[execs[k].ncalls].val

C10_Witness ==
  \E k \in ExecIdx :
    /\ execs[k].edge = "trailing"
    /\ k > 1
    /\ execs[k].call >= execs[k - 1].call + 2
    /\ calls[execs[k].call].val # calls[execs[k].call - 1].val

\* C11: when the callback throws on the leading edge the exception reaches
\* the caller, lastExecTime is the time of that call all the same, and the
\* calls made less than delay after it are throttled.
C11_LeadingThrowKeepsWindow ==
  \A c \in CallIdx :
    (calls[c].path = "leading" /\ execs[calls[c].nexec + 1].threw) =>
      /\ calls[c].raised
      /\ c = Len(calls) => lastExecTime = calls[c].time
      /\ \A d \in CallIdx :
           (d > c /\ calls[d].time < calls[c].time + delay)
             => calls[d].path = "throttled"

\* C12: when the callback throws in the timer callback, trailingArgs has
\* been cleared all the same and timeoutRef is empty.
C12_TrailingThrowClearsArgs ==
  ( /\ Len(execs) >= 1
    /\ execs[Len(execs)].edge = "trailing"
    /\ execs[Len(execs)].threw
    /\ execs[Len(execs)].ncalls = Len(calls) )
  => trailingArgs = NoArgs /\ timeoutRef = Null

\* ----------------------------------------------- reference: lodash throttle
\* _.throttle(func, wait) is _.debounce(func, wait, {leading: true,
\* maxWait: wait, trailing: true}) (lodash 4.17, debounce.js).  The
\* reference is run over the recorded calls with wait = delay; its timers
\* are punctual and run before the calls made in the same millisecond.
Undefined == 0 - 1

LodashStart ==
  [lastArgs |-> 0, lastCallTime |-> Undefined, lastInvokeTime |-> 0,
   timerId |-> Undefined, out |-> <<>>]

LodashShouldInvoke(L, t) ==
  \/ L.lastCallTime = Undefined
  \/ t - L.lastCallTime >= delay
  \/ t - L.lastCallTime < 0
  \/ t - L.lastInvokeTime >= delay

LodashInvokeFunc(L, t) ==
  [L EXCEPT !.out = Append(@, [time |-> t, call |-> L.lastArgs]),
            !.lastArgs = 0,
            !.lastInvokeTime = t]

LodashLeadingEdge(L, t) ==
  LodashInvokeFunc([L EXCEPT !.lastInvokeTime = t, !.timerId = t + delay], t)

LodashTrailingEdge(L, t) ==
  IF L.lastArgs # 0
    THEN LodashInvokeFunc([L EXCEPT !.timerId = Undefined], t)
    ELSE [L EXCEPT !.timerId = Undefined]

LodashMin(a, b) == IF a <= b THEN a ELSE b

LodashRemainingWait(L, t) ==
  LodashMin(delay - (t - L.lastCallTime), delay - (t - L.lastInvokeTime))

LodashTimerExpired(L, t) ==
  IF LodashShouldInvoke(L, t)
    THEN LodashTrailingEdge(L, t)
    ELSE [L EXCEPT !.timerId = t + LodashRemainingWait(L, t)]

LodashDebounced(L, t, c) ==
  LET M == [L EXCEPT !.lastArgs = c, !.lastCallTime = t]
  IN IF LodashShouldInvoke(L, t)
       THEN IF L.timerId = Undefined
              THEN LodashLeadingEdge(M, t)
              ELSE LodashInvokeFunc([M EXCEPT !.timerId = t + delay], t)
       ELSE IF L.timerId = Undefined
              THEN [M EXCEPT !.timerId = t + delay]
              ELSE M

LodashTimers(L, t) ==
  IF L.timerId # Undefined /\ L.timerId <= t THEN LodashTimerExpired(L, t) ELSE L

RECURSIVE LodashRun(_, _, _)
LodashRun(L, t, c) ==
  IF c <= Len(calls) /\ calls[c].time = t
    THEN LodashRun(LodashDebounced(L, t, c), t, c + 1)
    ELSE IF t < now
           THEN LodashRun(LodashTimers(L, t + 1), t + 1, c)
           ELSE L

LodashTrace == LodashRun(LodashStart, ClockStart, 1).out

HookTrace == [k \in ExecIdx |-> [time |-> execs[k].time, call |-> execs[k].call]]

\* C13: for every sequence of calls and clock advances the invocations of
\* the callback (time and arguments of each) are those of lodash's throttle
\* with leading and trailing enabled, driven by the same sequence.
C13_MatchesLodash ==
  NoTimerDue => HookTrace = LodashTrace

(***************************************************************************)
(* useFetch (src/unnamed/part_004; src/unnamed/part_005 is the same but    *)
(* for initialData and the first value of loading).                        *)
(*                                                                         *)
(* A request is the part of one execute() call after its first await.  It  *)
(* is "pending" while fetch() or res.json() is outstanding, "aborted" once *)
(* its controller was aborted and the AbortError has not reached the catch *)
(* block yet, "cancelled" once it has, "ok" once setData ran and "failed"  *)
(* once setError ran.  late records whether a newer request had been       *)
(* started when the request wrote data or error.                           *)
(***************************************************************************)
MaxRequests == 3     \* requests started per behaviour

KeepPrevious(reqs) == reqs
\* if (controllerRef.current) controllerRef.current.abort()
\* aborting the controller of a request that has settled changes nothing
AbortPrevious(reqs) ==
  IF controllerRef # NoRequest /\ reqs[controllerRef].state = "pending"
    THEN [reqs EXCEPT ![controllerRef].state = "aborted"]
    ELSE reqs

\* execute(targetUrl) up to its first await, finalUrl being non-null
Execute(finalUrl) ==
  /\ Len(requests) < MaxRequests
  /\ requests' = Append(AbortPrevious(requests),
                        [url |-> finalUrl, state |-> "pending", late |-> FALSE])
  /\ controllerRef' = Len(requests) + 1
  /\ loading' = TRUE
  /\ error' = NoRequest
  /\ UNCHANGED data

\* A render with another url, or with the same url and changed deps; the
\* effect calls execute(url) unless url is null.
FetchRender(u) ==
  /\ u # NoUrl \/ fetchUrl # NoUrl
  /\ fetchUrl' = u
  /\ IF u # NoUrl
       THEN Execute(u)
       ELSE UNCHANGED <<data, error, loading, controllerRef, requests>>
  /\ UNCHANGED notFetch

\* refetch(overrideUrl): execute(overrideUrl), finalUrl = targetUrl ?? url;
\* execute returns at once when finalUrl is null
Refetch(o) ==
  LET finalUrl == IF o # NoUrl THEN o ELSE fetchUrl
  IN /\ finalUrl # NoUrl
     /\ Execute(finalUrl)
     /\ UNCHANGED fetchUrl
     /\ UNCHANGED notFetch

\* fetch() and res.json() of request k complete: setData(json), or the catch
\* block's setError(err); then finally: setLoading(false).
FetchSettle(k, ok) ==
  /\ requests[k].state = "pending"
  /\ requests' = [requests EXCEPT ![k].state = IF ok THEN "ok" ELSE "failed",
                                  ![k].late = k # Len(requests)]
  /\ data' = IF ok THEN k ELSE data
  /\ error' = IF ok THEN error ELSE k
  /\ loading' = FALSE
  /\ UNCHANGED <<fetchUrl, controllerRef>>
  /\ UNCHANGED notFetch

\* The AbortError of request k reaches the catch block: return, and then
\* finally: setLoading(false).
FetchAborted(k) ==
  /\ requests[k].state = "aborted"
  /\ requests' = [requests EXCEPT ![k].state = "cancelled"]
  /\ loading' = FALSE
  /\ UNCHANGED <<fetchUrl, data, error, controllerRef>>
  /\ UNCHANGED notFetch

\* After the first render and its effect.
FetchInit ==
  /\ fetchUrl \in Urls \cup {NoUrl}
  /\ data = NoRequest
  /\ error = NoRequest
  /\ loading = (fetchUrl # NoUrl)
  /\ controllerRef = IF fetchUrl # NoUrl THEN 1 ELSE NoRequest
  /\ requests = IF fetchUrl # NoUrl
                  THEN <<[url |-> fetchUrl, state |-> "pending", late |-> FALSE]>>
                  ELSE <<>>
  /\ OthersIdle("fetch")

FetchNext ==
  \/ \E u \in Urls \cup {NoUrl} : FetchRender(u)
  \/ \E o \in Urls \cup {NoUrl} : Refetch(o)
  \/ \E k \in 1..Len(requests), ok \in BOOLEAN : FetchSettle(k, ok)
  \/ \E k \in 1..Len(requests) : FetchAborted(k)

SpecFetch == FetchInit /\ [][FetchNext]_vars

RequestIdx == 1..Len(requests)
\* The request started most recently.
LatestRequest == Len(requests)
\* The requests whose json was passed to setData.
Succeeded == {k \in RequestIdx : requests[k].state = "ok"}
SetMax(S) == CHOOSE m \in S : \A x \in S : x <= m

\* C14: whenever the most recently started request has not settled, loading
\* is true (also while an earlier, superseded request is being aborted).
C14_LoadingWhileLatestPending ==
  (requests # <<>> /\ requests[LatestRequest].state = "pending") => loading

\* C15: a request superseded by a newer one is aborted and never writes data
\* or error; data is the json of the latest request that succeeded.
C15_SupersededNeverWrites ==
  /\ \A k \in RequestIdx :
       /\ k < LatestRequest => requests[k].state # "pending"
       /\ ~requests[k].late
  /\ data = IF Succeeded = {} THEN NoRequest ELSE SetMax(Succeeded)
  /\ error # NoRequest => requests[error].state = "failed"

\* A request was superseded while in flight and the newer one delivered data.
C15_Witness ==
  \E k \in RequestIdx :
    /\ requests[k].state \in {"aborted", "cancelled"}
    /\ data > k
    /\ requests[data].state = "ok"

(***************************************************************************)
(* useLocalStorage (src/unnamed/part_003).                                 *)
(*                                                                         *)
(* Three hook instances, each with a key and a tab, over one localStorage. *)
(* The values are small numbers, serialized by JSON.stringify and read     *)
(* back by JSON.parse.  An instance renders again after the callback given *)
(* to subscribe has run; between a notification and the render it still    *)
(* returns, and its setValue still closes over, the value of its latest    *)
(* render.                                                                 *)
(***************************************************************************)
MaxStored == 3       \* stored values range over 0..MaxStored
MaxUpdates == 2      \* setValue calls per behaviour

StoredValues == 0..MaxStored
Updaters == {"inc", "twice"}     \* prev => prev + 1, prev => prev * 2

\* newValue(value) for a function newValue
Apply(f, v) == IF f = "inc" THEN v + 1 ELSE 2 * v

\* serializer = JSON.stringify
Serialize(v) == ToString(v)
\* deserializer = JSON.parse; the caller falls back to initialValue on a throw
Deserialize(str) ==
  IF \E v \in StoredValues : ToString(v) = str
    THEN CHOOSE v \in StoredValues : ToString(v) = str
    ELSE InitialValue

\* getSnapshot: item ? item : serializer(initialValue)
GetSnapshot(k) ==
  IF localStorage[k] # NoItem THEN localStorage[k] ELSE Serialize(InitialValue)

\* const value = deserializer(storeValue)
SnapshotValue(k) == Deserialize(GetSnapshot(k))

SameTabListeners(h, changed) ==
  {g \in Hooks : subscribed[g] /\ hookKey[g] = hookKey[h]
                   /\ hookTab[g] = hookTab[h]}
\* The instances whose subscribe callback runs after setValue in h: in h's tab
\* the listeners of "local-storage-change" with detail.key === key, in the
\* other tabs the listeners of "storage" with event.key === key; a storage
\* event is sent only when the item changed.
Listeners(h, changed) ==
  {g \in Hooks : subscribed[g] /\ hookKey[g] = hookKey[h]
                   /\ (hookTab[g] = hookTab[h] \/ changed)}

\* newValue instanceof Function ? newValue(value) : newValue
ValueToStore(h, nv) == IF nv.fn THEN Apply(nv.f, rendered[h]) ELSE nv.v

\* setValue(newValue) in instance h
SetValue(h, nv) ==
  LET k == hookKey[h]
      valueToStore == ValueToStore(h, nv)
      serializedValue == Serialize(valueToStore)
      exact == IF nv.fn THEN Apply(nv.f, composed[k]) ELSE nv.v
  IN /\ subscribed[h]
     /\ updates < MaxUpdates
     /\ valueToStore \in StoredValues /\ exact \in StoredValues
     /\ localStorage' = [localStorage EXCEPT ![k] = serializedValue]
     /\ notified' = [g \in Hooks |->
                       notified[g]
                         \/ g \in Listeners(h, localStorage[k] # serializedValue)]
     /\ lastSet' = [lastSet EXCEPT ![k] = valueToStore]
     /\ composed' = [composed EXCEPT ![k] = exact]
     /\ updates' = updates + 1
     /\ UNCHANGED <<hookKey, hookTab, subscribed, rendered>>
     /\ UNCHANGED notStorage

\* React renders a notified instance again: useSyncExternalStore reads
\* getSnapshot, the hook deserializes it.
StorageRender(h) ==
  /\ subscribed[h] /\ notified[h]
  /\ rendered' = [rendered EXCEPT ![h] = SnapshotValue(hookKey[h])]
  /\ notified' = [notified EXCEPT ![h] = FALSE]
  /\ UNCHANGED <<localStorage, hookKey, hookTab, subscribed, lastSet, composed,
                 updates>>
  /\ UNCHANGED notStorage

\* The component of instance h unmounts: the listeners are removed.
StorageUnmount(h) ==
  /\ subscribed[h]
  /\ subscribed' = [subscribed EXCEPT ![h] = FALSE]
  /\ notified' = [notified EXCEPT ![h] = FALSE]
  /\ UNCHANGED <<localStorage, hookKey, hookTab, rendered, lastSet, composed,
                 updates>>
  /\ UNCHANGED notStorage

\* Three mounted instances over an empty localStorage.
StorageInit ==
  /\ localStorage = [k \in Keys |-> NoItem]
  /\ hookKey \in [Hooks -> Keys] /\ hookKey[1] = "k1"
  /\ hookTab \in [Hooks -> Tabs] /\ hookTab[1] = 1
  /\ subscribed = [h \in Hooks |-> TRUE]
  /\ rendered = [h \in Hooks |-> InitialValue]
  /\ notified = [h \in Hooks |-> FALSE]
  /\ lastSet = [k \in Keys |-> NoValue]
  /\ composed = [k \in Keys |-> InitialValue]
  /\ updates = 0
  /\ OthersIdle("storage")

NewValues ==
  [fn : {FALSE}, f : {"none"}, v : StoredValues]
    \cup [fn : {TRUE}, f : Updaters, v : {InitialValue}]

StorageNext ==
  \/ \E h \in Hooks, nv \in NewValues : SetValue(h, nv)
  \/ \E h \in Hooks : StorageRender(h)
  \/ \E h \in Hooks : StorageUnmount(h)

SpecStorage == StorageInit /\ [][StorageNext]_vars

\* C16: after any sequence of updates of a key, functional ones included, the
\* key holds, and an instance that has rendered since returns, the updates
\* applied in order to the initial value.
C16_FunctionalUpdatesCompose ==
  \A k \in Keys :
    /\ SnapshotValue(k) = composed[k]
    /\ \A h \in Hooks :
         (subscribed[h] /\ hookKey[h] = k /\ ~notified[h])
           => rendered[h] = composed[k]

MaxInputs == 3       \* renders that run the effect, the first included

KeptTimers(ts) == ts
\* return () => { clearTimeout(timer) }
ClearedTimers(ts) == {}

\* setTimeout(() => { setDebouncedValue(value) }, delay)
DebounceTimer(v, d, n) == [due |-> now + d, val |-> v, delay |-> d, input |-> n]

\* The component renders with value v and delay d, one of them new: the
\* effect's cleanup runs, then the effect.
DebounceRender(v, d) ==
  /\ debMounted
  /\ v # debValue \/ d # debDelay
  /\ Len(inputs) < MaxInputs
  /\ debValue' = v
  /\ debDelay' = d
  /\ inputs' = Append(inputs, [time |-> now, val |-> v])
  /\ debTimers' = ClearedTimers(debTimers)
                    \cup {DebounceTimer(v, d, Len(inputs'))}
  /\ UNCHANGED <<debouncedValue, debMounted, shown>>
  /\ UNCHANGED notDebounce

\* A timer runs: setDebouncedValue(value).
DebounceFire ==
  \E tm \in debTimers :
    /\ now >= tm.due
    /\ debTimers' = debTimers \ {tm}
    /\ debouncedValue' = tm.val
    /\ shown' = Append(shown, [time |-> now, val |-> tm.val, delay |-> tm.delay,
                               input |-> tm.input, latest |-> Len(inputs)])
    /\ UNCHANGED <<debValue, debDelay, debMounted, inputs>>
    /\ UNCHANGED notDebounce

\* The component unmounts: the effect's cleanup runs.
DebounceUnmount ==
  /\ debMounted
  /\ debMounted' = FALSE
  /\ debTimers' = ClearedTimers(debTimers)
  /\ UNCHANGED <<debValue, debDelay, debouncedValue, inputs, shown>>
  /\ UNCHANGED notDebounce

\* After the first render and its effect.
DebounceInit ==
  /\ OthersIdle("debounce")
  /\ debValue \in Values
  /\ debDelay \in 0..MaxDelay
  /\ debouncedValue = debValue
  /\ debMounted = TRUE
  /\ inputs = <<[time |-> now, val |-> debValue]>>
  /\ debTimers = {DebounceTimer(debValue, debDelay, 1)}
  /\ shown = <<>>

DebounceNext ==
  \/ \E v \in Values, d \in 0..MaxDelay : DebounceRender(v, d)
  \/ DebounceFire
  \/ DebounceUnmount
  \/ Tick

SpecDebounce == DebounceInit /\ [][DebounceNext]_vars

\* C18: the returned value is the first input until a timer runs; every value
\* it changes to is the latest input at that time, and that input has stood
\* unchanged for at least the delay; an input replaced earlier is never shown.
C18_DebouncedIsSettledInput ==
  /\ debouncedValue = IF shown = <<>> THEN inputs[1].val
                                      ELSE shown[Len(shown)].val
  /\ \A k \in 1..Len(shown) :
       /\ shown[k].input = shown[k].latest
       /\ shown[k].val = inputs[shown[k].input].val
       /\ shown[k].time >= inputs[shown[k].input].time + shown[k].delay

\* The input changed twice and the returned value went from the first input
\* to the third, a different value, the second never having been shown.
C18_Witness ==
  /\ Len(inputs) = 3
  /\ shown # <<>>
  /\ \A k \in 1..Len(shown) : shown[k].input = 3
  /\ debouncedValue = inputs[3].val
  /\ inputs[3].val # inputs[2].val /\ inputs[2].val # inputs[1].val
  /\ shown[1].delay > 0
  /\ inputs[2].time > inputs[1].time

(***************************************************************************)
(* useCopyToClipboard (src/src/hooks/useOnClickOutside/index.test.ts,      *)
(* lines 102-139).                                                         *)
(*                                                                         *)
(* A copy is recorded at the moment navigator.clipboard.writeText settles: *)
(* that is when copy() writes copiedText and sets its reset timer.         *)
(***************************************************************************)
MaxCopies == 3       \* copy() calls per behaviour

\* if (resetInterval) setTimeout(() => setCopiedText(null), resetInterval)
\* the timer is never cleared
ResetTimersAfterCopy(n) ==
  IF resetInterval # 0
    THEN resetTimers \cup {[due |-> now + resetInterval, copy |-> n]}
    ELSE resetTimers

\* copy(text): writeText resolves (ok) or rejects
Copy(text, ok) ==
  /\ Len(copies) < MaxCopies
  /\ copies' = Append(copies, [time |-> now, text |-> text, ok |-> ok])
  /\ IF ok
       THEN /\ copiedText' = text
            /\ resetTimers' = ResetTimersAfterCopy(Len(copies) + 1)
       ELSE /\ copiedText' = NoText
            /\ UNCHANGED resetTimers
  /\ UNCHANGED resetInterval
  /\ UNCHANGED notClipboard

\* A reset timer runs: setCopiedText(null).
ResetFire ==
  \E tm \in resetTimers :
    /\ now >= tm.due
    /\ resetTimers' = resetTimers \ {tm}
    /\ copiedText' = NoText
    /\ UNCHANGED <<resetInterval, copies>>
    /\ UNCHANGED notClipboard

ClipboardInit ==
  /\ copiedText = NoText
  /\ resetInterval \in 0..MaxDelay
  /\ resetTimers = {}
  /\ copies = <<>>
  /\ OthersIdle("clipboard")

ClipboardNext ==
  \/ \E text \in Values, ok \in BOOLEAN : Copy(text, ok)
  \/ ResetFire
  \/ Tick

SpecClipboard == ClipboardInit /\ [][ClipboardNext]_vars

\* C19: while less than resetInterval ms have passed since the latest copy,
\* and that copy succeeded, copiedText is its text (also when an earlier copy
\* was made less than resetInterval before it).
C19_CopiedTextUntilReset ==
  ( /\ copies # <<>>
    /\ copies[Len(copies)].ok
    /\ resetInterval # 0
    /\ now < copies[Len(copies)].time + resetInterval )
  => copiedText = copies[Len(copies)].text

(***************************************************************************)
(* useScrollLock (src/unnamed/part_002, lines 83-120).                     *)
(*                                                                         *)
(* The hook keeps one ref and returns lock and unlock; it registers no     *)
(* effect.  beforeLock remembers what body.style.overflow was before the   *)
(* first lock() that no unlock() has followed.                             *)
(***************************************************************************)
MaxScrollOps == 4    \* lock() and unlock() calls per behaviour

\* originalStyle.current || ""
RestoredOverflow == IF originalStyle # "" THEN originalStyle ELSE ""

\* lock()
Lock ==
  /\ scrollMounted
  /\ Len(scrollOps) < MaxScrollOps
  /\ originalStyle' = bodyOverflow
  /\ bodyOverflow' = "hidden"
  /\ beforeLock' = IF beforeLock = NotLocked THEN bodyOverflow ELSE beforeLock
  /\ scrollOps' = Append(scrollOps, "lock")
  /\ UNCHANGED scrollMounted
  /\ UNCHANGED notScroll

\* unlock()
Unlock ==
  /\ scrollMounted
  /\ Len(scrollOps) < MaxScrollOps
  /\ bodyOverflow' = RestoredOverflow
  /\ beforeLock' = NotLocked
  /\ scrollOps' = Append(scrollOps, "unlock")
  /\ UNCHANGED <<originalStyle, scrollMounted>>
  /\ UNCHANGED notScroll

\* The component unmounts; the hook has no cleanup to run.
ScrollUnmount ==
  /\ scrollMounted
  /\ scrollMounted' = FALSE
  /\ UNCHANGED <<bodyOverflow, originalStyle, beforeLock, scrollOps>>
  /\ UNCHANGED notScroll

ScrollInit ==
  /\ bodyOverflow \in Overflows
  /\ originalStyle = ""
  /\ scrollMounted = TRUE
  /\ beforeLock = NotLocked
  /\ scrollOps = <<>>
  /\ OthersIdle("scroll")

ScrollNext ==
  \/ Lock
  \/ Unlock
  \/ ScrollUnmount

SpecScroll == ScrollInit /\ [][ScrollNext]_vars

\* C20: once the component has unmounted with a lock() not undone by
\* unlock(), body.style.overflow is what it was before locking.
C20_UnmountUnlocks ==
  (~scrollMounted /\ beforeLock # NotLocked) => bodyOverflow = beforeLock

\* C21: while a lock() is not undone body.style.overflow is "hidden", and the
\* unlock() that follows one or more lock() calls sets it to what it was
\* before the first of them.
C21_LockUnlockRoundTrip ==
  /\ [](beforeLock # NotLocked => bodyOverflow = "hidden")
  /\ [][(scrollOps' = Append(scrollOps, "unlock") /\ beforeLock # NotLocked)
          => bodyOverflow' = beforeLock]_vars

(***************************************************************************)
(* useEventListener's target resolution                                    *)
(* (src/src/hooks/useEventListener/index.tsx, lines 63-69).                *)
(***************************************************************************)
\* const targetElement = element ?? window
TargetElement(element) == IF element = NoElement THEN "window" ELSE element

\* targetElement && targetElement.addEventListener
CanBind(target) == target \in EventTargets

(***************************************************************************)
(* useHover (src/src/hooks/useHover/index.ts; src/unnamed/part_010 is the  *)
(* same code with longer comments).                                        *)
(*                                                                         *)
(* The hook calls useEventListener twice and passes its ref object as the  *)
(* element argument.  hoverListeners is what the two binding effects have  *)
(* added to the DOM.                                                       *)
(***************************************************************************)
MaxEvents == 3       \* events dispatched per behaviour

HoverElements == {"el1", "el2"}

\* The listeners the two effects add: useEventListener(name, handler, ref)
HoverBound ==
  {[target |-> TargetElement(RefObject), name |-> n] :
     n \in {m \in EventNames : CanBind(TargetElement(RefObject))}}

\* A mouseenter or mouseleave event is dispatched on an element.
HoverDispatch(name, target) ==
  /\ Len(hoverEvents) < MaxEvents
  /\ hoverEvents' = Append(hoverEvents, [name |-> name, target |-> target])
  /\ isHovering' =
       IF \E l \in hoverListeners : l.target = target /\ l.name = name
         THEN name = "mouseenter"
         ELSE isHovering
  /\ UNCHANGED <<hoverRef, hoverListeners, hoverMounted>>
  /\ UNCHANGED notHover

\* The component unmounts: the effects' cleanups run, React empties the ref.
HoverUnmount ==
  /\ hoverMounted
  /\ hoverMounted' = FALSE
  /\ hoverListeners' = {}
  /\ hoverRef' = NoNode
  /\ UNCHANGED <<isHovering, hoverEvents>>
  /\ UNCHANGED notHover

\* After the first render, with the ref attached to an element, and its
\* effects.
HoverInit ==
  /\ isHovering = FALSE
  /\ hoverRef \in HoverElements
  /\ hoverListeners = HoverBound
  /\ hoverMounted = TRUE
  /\ hoverEvents = <<>>
  /\ OthersIdle("hover")

HoverNext ==
  \/ \E name \in EventNames, target \in HoverElements : HoverDispatch(name, target)
  \/ HoverUnmount

SpecHover == HoverInit /\ [][HoverNext]_vars

\* C22: while the component is mounted, after a mouseenter on the element the
\* ref is attached to isHovering is true, and after a mouseleave on it false.
C22_HoverFollowsMouse ==
  ( /\ hoverMounted
    /\ hoverEvents # <<>>
    /\ hoverEvents[Len(hoverEvents)].target = hoverRef )
  => isHovering = (hoverEvents[Len(hoverEvents)].name = "mouseenter")

(***************************************************************************)
(* useTimeout (src/unnamed/part_014).                                      *)
(*                                                                         *)
(* A render and the effects it triggers are one step.  Each timer carries  *)
(* the number of the operation (in toOps) that set it.  toOps records, for *)
(* every operation, whether it cancels a pending timeout according to the  *)
(* hook's contract: clear(), reset(), a change of delay and the unmount.   *)
(***************************************************************************)
MaxTimeoutOps == 3   \* renders, reset(), clear() and unmount per behaviour

Delays == 0..MaxDelay \cup {NullDelay}

\* clearTimeout(id)
ClearTimeout(ts, id) == {tm \in ts : tm.id # id}

TimersNotCleared(ts) == ts
\* clear: if (timeoutRef.current) clearTimeout(timeoutRef.current)
TimersAfterClear(ts) == IF toRef # Null THEN ClearTimeout(ts, toRef) ELSE ts

TimersNotCleanedUp(ts, before) == ts
\* The cleanup of the delay effect, which exists when the effect ran with a
\* delay: if (timeoutRef.current) clearTimeout(timeoutRef.current)
TimersAfterCleanup(ts, before) ==
  IF before # NullDelay /\ toRef # Null THEN ClearTimeout(ts, toRef) ELSE ts

\* setTimeout(() => { savedCallback.current() }, delay), set by operation n
TimeoutTimer(d, n) == [id |-> toNextId, due |-> now + d, op |-> n]

\* One operation, as recorded in toOps.
TimeoutOp(name, d, cancels) ==
  [op |-> name, time |-> now, delay |-> d, cancels |-> cancels]

\* The component renders with a new callback or a new delay; the effects run.
\* (A render that changes both leaves the hook as these two renders in a row.)
TimeoutRender(cb, d) ==
  /\ toMounted
  /\ (cb # toCallback) # (d # toDelay)
  /\ Len(toOps) < MaxTimeoutOps
  /\ toCallback' = cb
  /\ toSaved' = cb
  /\ toDelay' = d
  /\ toOps' = Append(toOps, TimeoutOp("render", d, d # toDelay))
  /\ IF d = toDelay
       THEN UNCHANGED <<toTimers, toRef, toNextId>>
       ELSE IF d = NullDelay
              THEN /\ toTimers' = TimersAfterCleanup(toTimers, toDelay)
                   /\ UNCHANGED <<toRef, toNextId>>
              ELSE /\ toTimers' = TimersAfterCleanup(toTimers, toDelay)
                                    \cup {TimeoutTimer(d, Len(toOps) + 1)}
                   /\ toRef' = toNextId
                   /\ toNextId' = toNextId + 1
  /\ UNCHANGED <<toMounted, toCalls>>
  /\ UNCHANGED notTimeout

\* reset()
TimeoutReset ==
  /\ toMounted
  /\ Len(toOps) < MaxTimeoutOps
  /\ toOps' = Append(toOps, TimeoutOp("reset", toDelay, TRUE))
  /\ IF toDelay # NullDelay
       THEN /\ toTimers' = TimersAfterClear(toTimers)
                             \cup {TimeoutTimer(toDelay, Len(toOps) + 1)}
            /\ toRef' = toNextId
            /\ toNextId' = toNextId + 1
       ELSE /\ toTimers' = TimersAfterClear(toTimers)
            /\ UNCHANGED <<toRef, toNextId>>
  /\ UNCHANGED <<toCallback, toSaved, toDelay, toMounted, toCalls>>
  /\ UNCHANGED notTimeout

\* clear()
TimeoutClear ==
  /\ toMounted
  /\ Len(toOps) < MaxTimeoutOps
  /\ toOps' = Append(toOps, TimeoutOp("clear", toDelay, TRUE))
  /\ toTimers' = TimersAfterClear(toTimers)
  /\ UNCHANGED <<toCallback, toSaved, toDelay, toRef, toNextId, toMounted,
                 toCalls>>
  /\ UNCHANGED notTimeout

\* A timer runs: savedCallback.current()
TimeoutFire ==
  \E tm \in toTimers :
    /\ now >= tm.due
    /\ toTimers' = toTimers \ {tm}
    /\ toCalls' = Append(toCalls, [time |-> now, op |-> tm.op, cb |-> toSaved,
                                   supplied |-> toCallback, nops |-> Len(toOps),
                                   mounted |-> toMounted])
    /\ UNCHANGED <<toCallback, toSaved, toDelay, toRef, toNextId, toMounted,
                   toOps>>
    /\ UNCHANGED notTimeout

\* The component unmounts: the cleanup of the delay effect runs.
TimeoutUnmount ==
  /\ toMounted
  /\ Len(toOps) < MaxTimeoutOps
  /\ toMounted' = FALSE
  /\ toOps' = Append(toOps, TimeoutOp("unmount", toDelay, TRUE))
  /\ toTimers' = TimersAfterCleanup(toTimers, toDelay)
  /\ UNCHANGED <<toCallback, toSaved, toDelay, toRef, toNextId, toCalls>>
  /\ UNCHANGED notTimeout

\* After the first render and its effects.  The hook reads no clock: time
\* counts from the mount.
TimeoutInit ==
  /\ OthersIdleAt("timeout", MockClockStart)
  /\ toCallback = FirstCallback
  /\ toSaved = toCallback
  /\ toDelay \in Delays
  /\ toMounted = TRUE
  /\ toOps = <<TimeoutOp("mount", toDelay, FALSE)>>
  /\ toCalls = <<>>
  /\ IF toDelay = NullDelay
       THEN toTimers = {} /\ toRef = Null /\ toNextId = 1
       ELSE /\ toTimers = {[id |-> 1, due |-> now + toDelay, op |-> 1]}
            /\ toRef = 1
            /\ toNextId = 2

TimeoutNext ==
  \/ \E cb \in Callbacks, d \in Delays : TimeoutRender(cb, d)
  \/ TimeoutReset
  \/ TimeoutClear
  \/ TimeoutFire
  \/ TimeoutUnmount
  \/ Tick

SpecTimeout == TimeoutInit /\ [][TimeoutNext]_vars

TimeoutOpIdx == 1..Len(toOps)
TimeoutCallIdx == 1..Len(toCalls)
\* The invocations made by the timer that operation n set.
CallsOfOp(n) == {c \in TimeoutCallIdx : toCalls[c].op = n}
\* reset() calls made while delay was a number.
Resets == {n \in TimeoutOpIdx : toOps[n].op = "reset" /\ toOps[n].delay # NullDelay}

\* C23: an invocation that follows a reset() comes from the timer of that
\* reset or of a later operation, never from the timeout pending before it,
\* and not before delay ms after the operation that set its timer; the timer
\* of a reset() invokes the callback at most once, and exactly once when it
\* has run without being cancelled.
C23_ResetRestartsTimeout ==
  /\ \A c \in TimeoutCallIdx :
       /\ \A r \in Resets : r <= toCalls[c].nops => toCalls[c].op >= r
       /\ toCalls[c].time >= toOps[toCalls[c].op].time + toOps[toCalls[c].op].delay
  /\ \A r \in Resets :
       /\ Cardinality(CallsOfOp(r)) <= 1
       /\ (r = Len(toOps) /\ toTimers = {}) => Cardinality(CallsOfOp(r)) = 1

\* reset() was called while the timeout of the mount was pending, time passed
\* the moment that timeout was due, and the timer of the reset() then ran.
C23_Witness ==
  \E c \in TimeoutCallIdx :
    /\ toCalls[c].op = 2 /\ toOps[2].op = "reset"
    /\ toOps[1].delay > 0
    /\ toOps[2].time > toOps[1].time
    /\ toOps[2].time < toOps[1].time + toOps[1].delay
    /\ Len(toCalls) = 1

\* C24: the callback is invoked only by a timeout that nothing cancelled: no
\* clear(), reset(), change of delay or unmount lies between the operation
\* that set the timer and the invocation; while delay is null no timer is
\* pending, and mounting with delay null sets none.
C24_CancelledNeverFires ==
  /\ \A c \in TimeoutCallIdx :
       /\ toCalls[c].mounted
       /\ \A k \in TimeoutOpIdx :
            (k > toCalls[c].op /\ k <= toCalls[c].nops) => ~toOps[k].cancels
  /\ toDelay = NullDelay => toTimers = {}
  /\ toOps[1].delay = NullDelay => CallsOfOp(1) = {}
  /\ ~toMounted => toTimers = {}

\* A pending timeout was cancelled by clear(), by delay becoming null or by
\* the unmount, the clock passed the time it was due, and nothing was invoked.
C24_Witness ==
  /\ toCalls = <<>>
  /\ toOps[1].delay # NullDelay
  /\ Len(toOps) = 2
  /\ toOps[2].cancels /\ toOps[2].op # "reset"
  /\ toOps[2].time < toOps[1].time + toOps[1].delay
  /\ now > toOps[1].time + toOps[1].delay

(***************************************************************************)
(* useInterval (src/src/hooks/useInterval/index.ts).                       *)
(*                                                                         *)
(* A render and the effects it triggers are one step.  An interval is due  *)
(* every period ms from the moment it was set; in SpecInterval the clock   *)
(* does not pass a due tick (ticks run on time, as under fake timers).     *)
(***************************************************************************)
MaxIntervalRenders == 3   \* renders after the first per behaviour

IntervalDelays == 1..MaxDelay \cup {NullDelay}

IntervalsKept(ts) == ts
\* return () => clearInterval(id)
IntervalsAfterCleanup(ts) == {}

IntervalCallbackCaptured(tm) == tm.cb
\* savedCallback.current() inside the interval callback
IntervalCallback(tm) == ivSaved

\* setInterval(() => { savedCallback.current() }, delay)
Interval(d) ==
  [id |-> ivNextId, start |-> now, period |-> d, due |-> now + d, ticks |-> 0,
   cb |-> ivSaved']

\* The component renders with a new callback or a new delay; the effects run.
\* (A render that changes both leaves the hook as these two renders in a row.)
IntervalRender(cb, d) ==
  /\ ivMounted
  /\ (cb # ivCallback) # (d # ivDelay)
  /\ ivRenders < MaxIntervalRenders
  /\ ivRenders' = ivRenders + 1
  /\ ivCallback' = cb
  /\ ivSaved' = cb
  /\ ivDelay' = d
  /\ IF d = ivDelay
       THEN UNCHANGED <<ivTimers, ivNextId>>
       ELSE IF d = NullDelay
              THEN /\ ivTimers' = IntervalsAfterCleanup(ivTimers)
                   /\ UNCHANGED ivNextId
              ELSE /\ ivTimers' = IntervalsAfterCleanup(ivTimers) \cup {Interval(d)}
                   /\ ivNextId' = ivNextId + 1
  /\ UNCHANGED <<ivMounted, ivCalls>>
  /\ UNCHANGED notInterval

\* A tick of an interval runs: savedCallback.current()
IntervalFire ==
  \E tm \in ivTimers :
    /\ now >= tm.due
    /\ ivTimers' = (ivTimers \ {tm})
                     \cup {[tm EXCEPT !.due = tm.due + tm.period,
                                      !.ticks = tm.ticks + 1]}
    /\ ivCalls' = Append(ivCalls,
                         [time |-> now, id |-> tm.id, tick |-> tm.ticks + 1,
                          start |-> tm.start, period |-> tm.period,
                          cb |-> IntervalCallback(tm), supplied |-> ivCallback,
                          delay |-> ivDelay, latest |-> ivNextId - 1,
                          mounted |-> ivMounted])
    /\ UNCHANGED <<ivCallback, ivSaved, ivDelay, ivNextId, ivMounted, ivRenders>>
    /\ UNCHANGED notInterval

\* The component unmounts: the cleanup of the interval effect runs.
IntervalUnmount ==
  /\ ivMounted
  /\ ivMounted' = FALSE
  /\ ivTimers' = IntervalsAfterCleanup(ivTimers)
  /\ UNCHANGED <<ivCallback, ivSaved, ivDelay, ivNextId, ivRenders, ivCalls>>
  /\ UNCHANGED notInterval

\* No tick of an interval is due: every tick that was due has run.
NoIntervalDue == \A tm \in ivTimers : tm.due > now

\* One millisecond passes; a due tick runs first.
IntervalTick == NoIntervalDue /\ Tick

\* After the first render and its effects.  The hook reads no clock: time
\* counts from the mount.
IntervalInit ==
  /\ OthersIdleAt("interval", MockClockStart)
  /\ ivCallback = FirstCallback
  /\ ivSaved = ivCallback
  /\ ivDelay \in IntervalDelays
  /\ ivMounted = TRUE
  /\ ivRenders = 0
  /\ ivCalls = <<>>
  /\ IF ivDelay = NullDelay
       THEN ivTimers = {} /\ ivNextId = 1
       ELSE /\ ivTimers = {[id |-> 1, start |-> now, period |-> ivDelay,
                            due |-> now + ivDelay, ticks |-> 0, cb |-> ivSaved]}
            /\ ivNextId = 2

IntervalNext ==
  \/ \E cb \in Callbacks, d \in IntervalDelays : IntervalRender(cb, d)
  \/ IntervalFire
  \/ IntervalUnmount
  \/ IntervalTick

SpecInterval == IntervalInit /\ [][IntervalNext]_vars

IntervalCallIdx == 1..Len(ivCalls)
\* The invocations made by interval id.
CallsOfInterval(id) == {c \in IntervalCallIdx : ivCalls[c].id = id}

\* C25: k ms-multiples of delay after an interval was set it has invoked the
\* callback k times, the k-th time at k * delay; while delay is null, and
\* after the unmount, no interval is left, and an invocation never comes from
\* an interval that a change of delay replaced.
C25_TicksEveryDelay ==
  /\ \A tm \in ivTimers :
       /\ Cardinality(CallsOfInterval(tm.id)) = tm.ticks
       /\ NoIntervalDue => tm.ticks = (now - tm.start) \div tm.period
  /\ \A c \in IntervalCallIdx :
       /\ ivCalls[c].time = ivCalls[c].start + ivCalls[c].tick * ivCalls[c].period
       /\ ivCalls[c].delay = ivCalls[c].period
       /\ ivCalls[c].id = ivCalls[c].latest
       /\ ivCalls[c].mounted
  /\ (ivDelay = NullDelay \/ ~ivMounted) => ivTimers = {}
  /\ Cardinality(ivTimers) <= 1

\* An interval has ticked twice, on time, after an earlier interval was
\* replaced by a change of delay before its first tick.
C25_Witness ==
  \E tm \in ivTimers :
    /\ tm.id = 2 /\ tm.ticks = 2 /\ tm.start > 0
    /\ Len(ivCalls) = 2
    /\ now = tm.start + 2 * tm.period

\* C26: the ticks of one interval stay period ms apart whatever renders with
\* a new callback come between them, and every tick invokes the callback of
\* the latest render.
C26_LatestCallbackNoShift ==
  \A c \in IntervalCallIdx :
    /\ ivCalls[c].cb = ivCalls[c].supplied
    /\ \A b \in IntervalCallIdx :
         (b < c /\ ivCalls[b].id = ivCalls[c].id) =>
           ivCalls[c].time - ivCalls[b].time
             = (ivCalls[c].tick - ivCalls[b].tick) * ivCalls[c].period

\* Two consecutive ticks of one interval, a render with a new callback between
\* them: the second tick invokes the new callback, one period after the first.
C26_Witness ==
  \E b, c \in IntervalCallIdx :
    /\ c = b + 1
    /\ ivCalls[b].id = ivCalls[c].id
    /\ ivCalls[b].supplied # ivCalls[c].supplied
    /\ ivCalls[c].cb = ivCalls[c].supplied
    /\ ivCalls[c].time = ivCalls[b].time + ivCalls[c].period

(***************************************************************************)
(* useEventListener (src/src/hooks/useEventListener/index.tsx).            *)
(*                                                                         *)
(* A render and the effects it triggers are one step.  The element         *)
(* argument is one the signature admits, left out or an element, never a  *)
(* ref object.  A listener carries the number of the addEventListener      *)
(* call that added it.                                                     *)
(***************************************************************************)
MaxListenerRenders == 2   \* renders after the first per behaviour
MaxListenerEvents == 2    \* events dispatched per behaviour

ListenerElements == {NoElement, "el1"}
DispatchTargets == {"window", "el1"}

\* The deps of the binding effect: [eventName, element, options]
BindingDepsChanged(name, el, opt, h) ==
  <<name, el, opt>> # <<lsName, lsElement, lsOptions>>

ListenerHandlerCaptured(l) == l.handler
\* const eventListener = (event) => { savedHandler.current(event) }
ListenerHandler(l) == lsSaved

\* targetElement.addEventListener(eventName, eventListener, options), when the
\* target has addEventListener
Bound(name, el, opt, h) ==
  IF CanBind(TargetElement(el))
    THEN {[id |-> Len(lsBinds) + 1, target |-> TargetElement(el), name |-> name,
           options |-> opt, handler |-> h]}
    ELSE {}

\* The arguments that differ from those of the previous render.
ArgsChanged(name, el, opt, h) ==
  {a \in 1..4 : <<name, el, opt, h>>[a] # <<lsName, lsElement, lsOptions, lsHandler>>[a]}

\* The component renders with new arguments; the effects run: the handler
\* effect, then the cleanup of the binding effect and the binding effect.
\* A render changes one argument: a render that changes several leaves the
\* hook as the renders that change them one by one, in a row.
ListenerRender(name, el, opt, h) ==
  /\ lsMounted
  /\ Cardinality(ArgsChanged(name, el, opt, h)) = 1
  /\ Len(lsRenders) < MaxListenerRenders
  /\ lsRenders' = Append(lsRenders,
                         [deps |-> <<name, el, opt>> # <<lsName, lsElement, lsOptions>>,
                          handler |-> h # lsHandler])
  /\ lsName' = name /\ lsElement' = el /\ lsOptions' = opt /\ lsHandler' = h
  /\ lsSaved' = h
  /\ IF BindingDepsChanged(name, el, opt, h)
       THEN /\ domListeners' = Bound(name, el, opt, h)
            /\ lsBinds' = lsBinds \o
                 [k \in 1..Cardinality(Bound(name, el, opt, h)) |->
                    [target |-> TargetElement(el), name |-> name, options |-> opt]]
       ELSE UNCHANGED <<domListeners, lsBinds>>
  /\ UNCHANGED <<lsMounted, lsCalls>>
  /\ UNCHANGED notListener

\* An event is dispatched on a target: its listeners for that event run.
ListenerDispatch(name, target) ==
  /\ Len(lsCalls) < MaxListenerEvents
  /\ lsCalls' = Append(lsCalls,
       [name |-> name, target |-> target,
        handlers |-> {ListenerHandler(l) :
                        l \in {m \in domListeners :
                                 m.target = target /\ m.name = name}},
        supplied |-> lsHandler, mounted |-> lsMounted,
        bound |-> lsMounted /\ target = TargetElement(lsElement) /\ name = lsName,
        renders |-> Len(lsRenders), binds |-> Len(lsBinds)])
  /\ UNCHANGED <<lsName, lsElement, lsOptions, lsHandler, lsSaved, domListeners,
                 lsMounted, lsRenders, lsBinds>>
  /\ UNCHANGED notListener

\* The component unmounts: the cleanup of the binding effect runs.
ListenerUnmount ==
  /\ lsMounted
  /\ lsMounted' = FALSE
  /\ domListeners' = {}
  /\ UNCHANGED <<lsName, lsElement, lsOptions, lsHandler, lsSaved, lsRenders,
                 lsBinds, lsCalls>>
  /\ UNCHANGED notListener

\* After the first render and its effects.
ListenerInit ==
  /\ OthersIdle("listener")
  /\ lsName = FirstEventName
  /\ lsElement \in ListenerElements
  /\ lsOptions = "none"
  /\ lsHandler = FirstCallback
  /\ lsSaved = lsHandler
  /\ lsMounted = TRUE
  /\ lsRenders = <<>>
  /\ lsCalls = <<>>
  /\ lsBinds = <<[target |-> TargetElement(lsElement), name |-> lsName,
                  options |-> lsOptions]>>
  /\ domListeners = {[id |-> 1, target |-> TargetElement(lsElement),
                      name |-> lsName, options |-> lsOptions,
                      handler |-> lsHandler]}

ListenerNext ==
  \/ \E name \in EventNames, el \in ListenerElements, opt \in ListenerOptions,
        h \in Callbacks : ListenerRender(name, el, opt, h)
  \/ \E name \in EventNames, target \in DispatchTargets :
       ListenerDispatch(name, target)
  \/ ListenerUnmount

SpecListener == ListenerInit /\ [][ListenerNext]_vars

\* The renders that changed eventName, element or options.
DepsRenders == {r \in 1..Len(lsRenders) : lsRenders[r].deps}

\* C27: addEventListener has been called once at the mount and once per
\* render that changed eventName, element or options; while mounted exactly
\* the listener added last is attached, for the current arguments; an event
\* on the bound target invokes the handler of the latest render and no other;
\* after the unmount nothing is attached and no event invokes a handler.
C27_BindOnceLatestHandler ==
  /\ Len(lsBinds) = 1 + Cardinality(DepsRenders)
  /\ lsMounted =>
       /\ Cardinality(domListeners) = 1
       /\ \A l \in domListeners :
            /\ l.id = Len(lsBinds)
            /\ l.target = TargetElement(lsElement)
            /\ l.name = lsName /\ l.options = lsOptions
  /\ ~lsMounted => domListeners = {}
  /\ \A e \in 1..Len(lsCalls) :
       lsCalls[e].handlers = IF lsCalls[e].bound THEN {lsCalls[e].supplied}
                                                 ELSE {}

\* A render changed the handler only; no listener was added for it, and an
\* event dispatched afterwards invoked the new handler.
C27_Witness ==
  \E e \in 1..Len(lsCalls) :
    /\ lsCalls[e].renders = 1
    /\ lsRenders[1].handler /\ ~lsRenders[1].deps
    /\ lsCalls[e].binds = 1
    /\ lsCalls[e].handlers = {lsCalls[e].supplied}
    /\ lsCalls[e].supplied # FirstCallback

(***************************************************************************)
(* useDocumentTitle (src/src/hooks/useDocumentTitle/index.ts).             *)
(*                                                                         *)
(* One component uses the hook and nothing else writes document.title.  A  *)
(* render and the layout effect it triggers are one step.                  *)
(***************************************************************************)
MaxTitleUpdates == 3   \* renders with a new title per behaviour

TitleKept(title) == title
\* return () => { if (originalTitle.current !== undefined)
\*                  document.title = originalTitle.current }
TitleAfterCleanup(title) ==
  IF originalTitle # NoTitle THEN originalTitle ELSE title

\* if (originalTitle.current === undefined)
\*   originalTitle.current = document.title
StoredOriginal(original, title) ==
  IF original = NoTitle THEN title ELSE original

\* The component renders with a new title: the cleanup of the previous effect
\* runs, then the effect.
TitleRender(title) ==
  /\ titleMounted
  /\ title # titleArg
  /\ Len(titleUpdates) < MaxTitleUpdates
  /\ titleUpdates' = Append(titleUpdates, title)
  /\ titleArg' = title
  /\ originalTitle' = StoredOriginal(originalTitle, TitleAfterCleanup(docTitle))
  /\ docTitle' = title
  /\ UNCHANGED <<titleMounted, titleBefore>>
  /\ UNCHANGED notTitle

\* The component unmounts: the cleanup of the effect runs.
TitleUnmount ==
  /\ titleMounted
  /\ titleMounted' = FALSE
  /\ docTitle' = TitleAfterCleanup(docTitle)
  /\ UNCHANGED <<titleArg, originalTitle, titleBefore, titleUpdates>>
  /\ UNCHANGED notTitle

\* After the first render and its layout effect, on a document whose title
\* was titleBefore.
TitleInit ==
  /\ OthersIdle("title")
  /\ titleBefore \in Titles
  /\ titleArg \in Titles
  /\ originalTitle = StoredOriginal(NoTitle, titleBefore)
  /\ docTitle = titleArg
  /\ titleMounted = TRUE
  /\ titleUpdates = <<>>

TitleNext ==
  \/ \E title \in Titles : TitleRender(title)
  \/ TitleUnmount

SpecTitle == TitleInit /\ [][TitleNext]_vars

\* C28: while the component is mounted document.title is the title of the
\* latest render; after the unmount it is the title the document had before
\* the hook mounted, however many title updates came in between.
C28_TitleSetThenRestored ==
  /\ titleMounted => docTitle = titleArg
  /\ ~titleMounted => docTitle = titleBefore

\* Unmounted after several title updates, none of the titles supplied being
\* the one the document had before.
C28_Witness ==
  /\ ~titleMounted
  /\ Len(titleUpdates) >= 2
  /\ titleArg # titleBefore
  /\ \A u \in 1..Len(titleUpdates) : titleUpdates[u] # titleBefore
  /\ docTitle = titleBefore

(***************************************************************************)
(* useThrottleCallback: the timer and the stored arguments.                *)
(***************************************************************************)

\* C29: at most one timer of the hook is alive, and a live timer is the one
\* timeoutRef names: a timer is created only when none is pending, and no
\* timer the hook has let go of is still alive.
C29_AtMostOneTimer ==
  /\ Cardinality(timers) <= 1
  /\ \A tm \in timers : tm.id = timeoutRef
  /\ timeoutRef # Null => \E tm \in timers : tm.id = timeoutRef

\* Two calls in a row were throttled while the timer of the first was
\* pending: one timer is alive, the one the first of them created.
C29_Witness ==
  /\ \E c \in 2..Len(calls) :
       /\ calls[c - 1].path = "throttled" /\ calls[c].path = "throttled"
       /\ calls[c - 1].nexec = calls[c].nexec
       /\ Len(execs) = calls[c].nexec
  /\ Cardinality(timers) = 1
  /\ trailingArgs # NoArgs /\ trailingArgs.call = Len(calls)

\* C30: the stored arguments are there exactly when a timer is pending.
C30_PendingArgsIffTimer ==
  (trailingArgs # NoArgs) <=> (timeoutRef # Null)

\* A call of throttled(...) that took the leading branch is this step.
LeadingCallStep ==
  /\ Len(calls') = Len(calls) + 1
  /\ calls'[Len(calls')].path = "leading"

\* A call of throttled(...) that took the throttled branch is this step.
ThrottledCallStep ==
  /\ Len(calls') = Len(calls) + 1
  /\ calls'[Len(calls')].path = "throttled"

\* The callback of a timer is this step, and it invoked the callback.
TrailingExecStep ==
  /\ Len(execs') = Len(execs) + 1
  /\ execs'[Len(execs')].edge = "trailing"

\* C31: a call that takes the leading branch while a timer is pending cancels
\* the timer and leaves neither a pending timer nor stored arguments.
C31_LeadingSupersedesPending ==
  [][(LeadingCallStep /\ timeoutRef # Null)
       => (timers' = {} /\ timeoutRef' = Null /\ trailingArgs' = NoArgs)]_vars

\* C32: lastExecTime changes only in a call that takes the leading branch,
\* which sets it to the time of the call; a call that takes the throttled
\* branch and the callback of a timer leave it as it was.
C32_LastExecTimeFrame ==
  [][/\ lastExecTime' # lastExecTime => LeadingCallStep
     /\ LeadingCallStep => lastExecTime' = now
     /\ (ThrottledCallStep \/ TrailingExecStep) => lastExecTime' = lastExecTime]_vars

\* A throttled call set a timer, the timer invoked the callback later than
\* the leading invocation, and lastExecTime is still the time of the leading
\* invocation.
C32_Witness ==
  /\ Len(execs) >= 2
  /\ execs[Len(execs)].edge = "trailing"
  /\ execs[Len(execs) - 1].edge = "leading"
  /\ execs[Len(execs)].time > execs[Len(execs) - 1].time
  /\ lastExecTime = execs[Len(execs) - 1].time

\* The timers whose callback runs in this step.
TimersRun == timers \ timers'

\* C33: a timer is due at lastExecTime + delay, whenever in the window the
\* throttled calls came; hence a trailing invocation is never earlier than
\* lastExecTime + delay, and it is at lastExecTime + delay exactly when the
\* timer runs as it comes due.
C33_TrailingAtWindowEnd ==
  /\ [](\A tm \in timers : tm.due = lastExecTime + delay)
  /\ [][TrailingExecStep =>
          /\ execs'[Len(execs')].time >= lastExecTime + delay
          /\ \A tm \in TimersRun :
               now = tm.due => execs'[Len(execs')].time = lastExecTime + delay]_vars

\* A call was throttled later than the start of its window and set the
\* timer; the timer ran as it came due and invoked the callback at the end of
\* the window, less than delay after the call.
C33_Witness ==
  \E c \in 2..Len(calls) :
    /\ calls[c - 1].path = "leading"
    /\ calls[c].path = "throttled"
    /\ calls[c].time > calls[c - 1].time
    /\ \E k \in 1..Len(execs) :
         /\ execs[k].edge = "trailing"
         /\ execs[k].call = c
         /\ execs[k].time = calls[c - 1].time + delay
         /\ execs[k].time < calls[c].time + delay

\* C34: a call that takes the throttled branch while a timer is pending
\* stores its arguments and changes nothing else: the callback is not
\* invoked, no timer is created, the pending timer keeps its due time and
\* lastExecTime stays.
C34_ThrottledWhilePending ==
  [][(ThrottledCallStep /\ timeoutRef # Null) =>
       /\ trailingArgs' = [call |-> Len(calls'), val |-> calls'[Len(calls')].val]
       /\ UNCHANGED <<execs, timers, timeoutRef, nextTimerId, lastExecTime,
                      callbackRef>>]_vars

\* A call with other arguments was throttled, later than the call that set
\* the timer, while that timer was pending: the timer is the one set first
\* and the stored arguments are those of the later call.
C34_Witness ==
  /\ Len(calls) >= 3
  /\ calls[Len(calls) - 1].path = "throttled"
  /\ calls[Len(calls)].path = "throttled"
  /\ calls[Len(calls)].time > calls[Len(calls) - 1].time
  /\ calls[Len(calls)].val # calls[Len(calls) - 1].val
  /\ trailingArgs = [call |-> Len(calls), val |-> calls[Len(calls)].val]
  /\ \E tm \in timers : tm.id = timeoutRef /\ tm.due > now
  /\ Len(execs) = calls[Len(calls) - 1].nexec

\* C35: the invocations of the callback carry the arguments of calls in the
\* order of the calls: no invocation carries the arguments of a call made
\* before the call whose arguments the invocation before it carried.
C35_OrderPreserved ==
  \A k \in 2..Len(execs) : execs[k].call >= execs[k - 1].call

\* A leading call cancelled the late timer of a throttled call, whose
\* arguments stayed in trailingArgs, and a later throttled call was invoked by
\* its own timer: three invocations in call order, the cancelled call skipped.
C35_Witness ==
  /\ Len(execs) >= 3
  /\ \E k \in 2..Len(execs) :
       /\ execs[k].edge = "trailing"
       /\ execs[k - 1].edge = "leading"
       /\ execs[k - 1].call >= 3
       /\ calls[execs[k - 1].call - 1].path = "throttled"
       /\ \A j \in 1..Len(execs) : execs[j].call # execs[k - 1].call - 1

(***************************************************************************)
(* useThrottleCallback: progress.                                          *)
(*                                                                         *)
(* The component stays mounted and keeps its callback: a render writes    *)
(* callbackRef alone, which no branch of the hook reads.  Time does not    *)
(* stop while a timer is pending, and a timer that is due eventually runs  *)
(* unless a leading call cancels it first.                                 *)
(***************************************************************************)

\* One millisecond passes; past MaxNow only towards a pending timer.
LiveTick ==
  /\ now < MaxNow \/ \E tm \in timers : tm.due > now
  /\ now' = now + 1
  /\ UNCHANGED <<delay, callback, callbackRef, lastExecTime, timeoutRef,
                 trailingArgs, timers, nextTimerId, mounted, mayThrow, calls,
                 execs>>
  /\ UNCHANGED notThrottle

NextLive ==
  \/ \E v \in Values : Throttled(v)
  \/ TimerFire
  \/ LiveTick

SpecLive ==
  Init /\ [][NextLive]_vars /\ WF_vars(TimerFire) /\ WF_vars(LiveTick)

\* The callback has been invoked with the arguments of call c or of a later
\* call.
ExecutedFrom(c) == \E k \in 1..Len(execs) : execs[k].call >= c

\* C36: after any call the callback is eventually invoked with the arguments
\* of that call or of a later one; so the last call made is eventually
\* invoked.
C36_NoLostFinalCall ==
  \A c \in 1..MaxCalls : (Len(calls) >= c) ~> ExecutedFrom(c)

\* The last call made was throttled, and its timer has invoked the callback
\* with its arguments.
C36_Witness ==
  /\ Len(calls) >= 2
  /\ calls[Len(calls)].path = "throttled"
  /\ Len(execs) >= 1
  /\ execs[Len(execs)].edge = "trailing"
  /\ execs[Len(execs)].call = Len(calls)

(***************************************************************************)
(* useThrottleCallback: which arguments an invocation carries.             *)
(***************************************************************************)

\* The calls made after call c and before invocation k.
CallsBetween(c, k) == (c + 1)..execs[k].ncalls

\* C37: a trailing invocation carries the arguments of the latest call that
\* took the throttled branch before the timer ran, and no leading call came
\* between that call and the invocation: the arguments of a throttled call
\* whose timer a later leading call cancelled are never used.
C37_NoStaleTrailingArgs ==
  \A k \in 1..Len(execs) :
    execs[k].edge = "trailing" =>
      /\ execs[k].call \in 1..execs[k].ncalls
      /\ calls[execs[k].call].path = "throttled"
      /\ execs[k].val = calls[execs[k].call].val
      /\ \A d \in CallsBetween(execs[k].call, k) : calls[d].path # "throttled"
      /\ \A d \in CallsBetween(execs[k].call, k) : calls[d].path # "leading"

\* A leading call cancelled the late timer of a throttled call; the
\* arguments of that call are still in trailingArgs, time has passed, no
\* timer is pending and the arguments were never used.
C37_Witness ==
  /\ trailingArgs # NoArgs
  /\ timeoutRef = Null /\ timers = {}
  /\ trailingArgs.call < Len(calls)
  /\ calls[Len(calls)].path = "leading"
  /\ now > calls[Len(calls)].time
  /\ \A k \in 1..Len(execs) : execs[k].call # trailingArgs.call

\* C38: every invocation carries the arguments of a call made before it, and
\* no call's arguments are used twice; so there are never more invocations
\* than calls.
C38_ExecsComeFromCalls ==
  /\ \A k \in 1..Len(execs) :
       /\ execs[k].call \in 1..execs[k].ncalls
       /\ execs[k].val = calls[execs[k].call].val
       /\ calls[execs[k].call].time <= execs[k].time
  /\ \A c \in 1..Len(calls) : Cardinality(ExecsOfCall(c)) <= 1
  /\ Len(execs) <= Len(calls)

\* Every one of MaxCalls calls was invoked once, some by a timer.
C38_Witness ==
  /\ Len(calls) = MaxCalls
  /\ Len(execs) = Len(calls)
  /\ \A c \in 1..Len(calls) : Cardinality(ExecsOfCall(c)) = 1
  /\ \E k \in 1..Len(execs) : execs[k].edge = "trailing"

====
